---- MODULE Spec2Model ----
(***************************************************************************)
(* A model of the retrieval-augmented question answering backend:          *)
(* RAGProcessor (src/rag_processor.py) with its vector store (a FAISS flat *)
(* index plus the parallel doc_chunks list), the two persisted artifacts   *)
(* (faiss_index.idx, doc_chunks.pkl) and the upload handler of src/app.py. *)
(*                                                                         *)
(* Strings are sequences of one-character strings.  External capabilities  *)
(* (the file system, the embedding model) are inputs chosen by \E from     *)
(* small sets; each may fail where the library call may raise.             *)
(* _split_text_into_chunks is also modelled one statement at a time, for   *)
(* arguments other than the defaults (SpecSplit).                          *)
(***************************************************************************)
EXTENDS Integers, Sequences, FiniteSets, TLC

VARIABLES
    embedding_dim,      \* self.embedding_dim of the running processor
    index,              \* self.index: [d, vecs], ntotal = Len(vecs)
    doc_chunks,         \* self.doc_chunks: sequence of [text, source]
    index_file,         \* the persisted faiss_index.idx
    doc_chunks_file,    \* the persisted doc_chunks.pkl
    last,               \* the last completed call: operation, argument, the
                        \* return statement it left by, HTTP status; for a
                        \* retrieval its k, for an answer whether the
                        \* completion call succeeded
    relevant_chunks,    \* what the last call retrieved (empty for other calls)
    context,            \* the context the last answer_query put in its prompt
    answer,             \* what the last answer_query returned
    split_call,         \* a call of _split_text_into_chunks in progress: its
                        \* arguments (text, chunk_size, chunk_overlap), its
                        \* locals (start, chunks), where it stands (pc), and
                        \* the start position of each chunk it emitted (starts)
    threads,            \* the request threads of the Flask server that are
                        \* inside a RAGProcessor call, each with its position
                        \* (pc) and its local variables
    gui                 \* the desktop client (gui.py): the state option of
                        \* its widgets, current_file, the text in the query
                        \* field, whether the file dialog is open, the
                        \* uploads and queries it started (attempts) and the
                        \* callbacks waiting in Tk's timer queue (after)

vars == <<embedding_dim, index, doc_chunks, index_file, doc_chunks_file, last,
          relevant_chunks, context, answer, split_call, threads, gui>>

store == <<index, doc_chunks>>
persisted == <<index_file, doc_chunks_file>>

-----------------------------------------------------------------------------
(* Bounds of the model *)

\* embedding dimensions range over 1..MaxDim
MaxDim == 2
\* add_document is only started while the store holds fewer entries than this
MaxChunks == 2
\* retrieve_relevant_chunks is called with k in 1..MaxK or with its default
MaxK == 1
\* the chunker is stepped on texts of up to MaxLen characters,
MaxLen == 4
\* with chunk_size in 1..MaxSize
MaxSize == 4
\* and chunk_overlap in 0..MaxOverlap
MaxOverlap == 4

Dims == 1..MaxDim

-----------------------------------------------------------------------------
(* Strings *)

Range(s) == {s[i] : i \in 1..Len(s)}

\* str.lower() on the characters that occur in the file names below
LowerChar(c) ==
    CASE c = "B" -> "b"
      [] c = "P" -> "p"
      [] c = "D" -> "d"
      [] c = "F" -> "f"
      [] c = "T" -> "t"
      [] c = "X" -> "x"
      [] OTHER -> c

Lower(s) == [i \in 1..Len(s) |-> LowerChar(s[i])]

EndsWith(s, suffix) ==
    /\ Len(s) >= Len(suffix)
    /\ SubSeq(s, Len(s) - Len(suffix) + 1, Len(s)) = suffix

\* the position of the last occurrence of c in s, 0 when there is none
LastIndexOf(s, c) ==
    LET at == {i \in 1..Len(s) : s[i] = c}
    IN  IF at = {} THEN 0 ELSE CHOOSE i \in at : \A j \in at : j <= i

\* os.path.basename
basename(path) == SubSeq(path, LastIndexOf(path, "/") + 1, Len(path))

\* os.path.join(folder, name) for a relative name
path_join(folder, name) == folder \o <<"/">> \o name

\* text[start:end] with 0-based start and exclusive end, as Python slices
Slice(text, start, end) ==
    SubSeq(text, start + 1, IF end < Len(text) THEN end ELSE Len(text))

-----------------------------------------------------------------------------
(* Program constants *)

\* src/rag_processor.py:128, the defaults of _split_text_into_chunks
chunk_size_default == 500
chunk_overlap_default == 50

\* src/rag_processor.py:201, the default of retrieve_relevant_chunks, and
\* src/rag_processor.py:253, the k answer_query asks for
k_default == 5
k_answer == 5

\* src/rag_processor.py:259
NO_CONTEXT ==
    <<"N","o"," ","r","e","l","e","v","a","n","t"," ","i","n","f","o","r",
      "m","a","t","i","o","n"," ","f","o","u","n","d"," ","i","n"," ","t",
      "h","e"," ","p","r","o","v","i","d","e","d"," ","d","o","c","u","m",
      "e","n","t","s",".">>

\* src/rag_processor.py:303
APOLOGY ==
    <<"S","o","r","r","y",","," ","I"," ","e","n","c","o","u","n","t","e",
      "r","e","d"," ","a","n"," ","e","r","r","o","r"," ","w","h","i","l",
      "e"," ","t","r","y","i","n","g"," ","t","o"," ","g","e","n","e","r",
      "a","t","e"," ","a","n"," ","a","n","s","w","e","r",".">>

\* src/app.py:14
UPLOAD_FOLDER == <<"d","a","t","a","/","u","p","l","o","a","d","s">>

\* src/app.py:15
ALLOWED_EXTENSIONS == { <<"t","x","t">>, <<"p","d","f">> }

-----------------------------------------------------------------------------
(* The documents a caller may hand in: a file name and the file's content  *)
(* as a sequence of pages (a text file is one page).                       *)

ShortPage == <<"a","b","c">>
\* one window step long, so that the text around it splits into two chunks
LongPage == [i \in 1..(chunk_size_default - chunk_overlap_default) |-> "p"]

Documents ==
    { [name |-> <<"a",".","t","x","t">>, pages |-> <<ShortPage>>],
      [name |-> <<"B",".","P","D","F">>, pages |-> <<LongPage, <<"q">> >>],
      [name |-> <<"e",".","p","d","f">>, pages |-> << <<>> >>],
      [name |-> <<"c",".","d","o","c">>, pages |-> <<ShortPage>>] }

-----------------------------------------------------------------------------
(* External capabilities *)

\* a stand-in for the embedding model: a fixed function of the text
CharCode(c) ==
    CASE c = "a" -> 1
      [] c = "b" -> 2
      [] c = "c" -> 3
      [] c = "p" -> 1
      [] c = "q" -> 2
      [] OTHER -> 0

Embedding(text, dim) ==
    [i \in 1..dim |-> IF i <= Len(text) THEN CharCode(text[i]) + (Len(text) % 2) ELSE 0]

\* embedding_model.encode(texts): one vector of the model's dimension per text
encode(texts, dim) == [j \in 1..Len(texts) |-> Embedding(texts[j], dim)]

\* what encode may do: raise (0), or return vectors of some dimension
EncodeOutcomes == {0} \cup Dims

\* faiss.IndexFlatL2(d)
IndexFlatL2(d) == [d |-> d, vecs |-> <<>>]

ntotal(idx) == Len(idx.vecs)

\* index.add(x) raises, before changing the index, unless x is n-by-d
index_add_accepts(idx, x) == \A j \in 1..Len(x) : Len(x[j]) = idx.d

\* an index that puts new vectors in front
index_add_front(idx, x) == [idx EXCEPT !.vecs = x \o @]

index_add(idx, x) == [idx EXCEPT !.vecs = @ \o x]

\* the artifacts on disk
NoFile == [exists |-> FALSE, readable |-> FALSE]
TornFile == [exists |-> TRUE, readable |-> FALSE]

\* faiss.write_index / faiss.read_index
write_index(idx) == [exists |-> TRUE, readable |-> TRUE, d |-> idx.d, vecs |-> idx.vecs]
read_index(f) == [d |-> f.d, vecs |-> f.vecs]

\* a dump that leaves the last entry of the list out
pickle_dump_short(chunks) ==
    [exists |-> TRUE, readable |-> TRUE, chunks |-> SubSeq(chunks, 1, Len(chunks) - 1)]

\* pickle.dump / pickle.load
pickle_dump(chunks) == [exists |-> TRUE, readable |-> TRUE, chunks |-> chunks]
pickle_load(f) == f.chunks

\* how a save may end: both artifacts written; write_index raising with the old
\* file left or a torn one; the chunk file failing to open (old file left) or
\* the dump raising after the file was truncated
SaveOutcomes == {"ok", "index_error", "index_torn", "chunks_error", "chunks_torn"}

-----------------------------------------------------------------------------
(* RAGProcessor: self is [embedding_dim, index, doc_chunks], disk is        *)
(* [index_file, doc_chunks_file]                                            *)

\* a reset that makes a new index and forgets to clear the chunk list
initialize_keeps_chunks(self) ==
    [self EXCEPT !.index = IndexFlatL2(self.embedding_dim)]

\* a reset that clears the chunk list and keeps the index it finds
initialize_keeps_index(self) ==
    [self EXCEPT !.doc_chunks = <<>>]

initialize_vector_store(self) ==
    [self EXCEPT !.index = IndexFlatL2(self.embedding_dim), !.doc_chunks = <<>>]

\* the way _load_vector_store takes: the else branch ("no_store"), the except
\* handler ("load_error"), the dimension check ("dim_mismatch"), or none of them
load_branch(self, disk) ==
    IF disk.index_file.exists /\ disk.doc_chunks_file.exists
    THEN IF ~disk.index_file.readable \/ ~disk.doc_chunks_file.readable
         THEN "load_error"
         ELSE IF disk.index_file.d # self.embedding_dim
              THEN "dim_mismatch"
              ELSE "loaded"
    ELSE "no_store"

\* a load that restores the index and never assigns the chunk list
load_index_only(self, disk) ==
    IF load_branch(self, disk) = "loaded"
    THEN [self EXCEPT !.index = read_index(disk.index_file)]
    ELSE initialize_vector_store(self)

load_vector_store(self, disk) ==
    IF disk.index_file.exists /\ disk.doc_chunks_file.exists
    THEN IF ~disk.index_file.readable
         THEN initialize_vector_store(self)            \* read_index raised
         ELSE LET s1 == [self EXCEPT !.index = read_index(disk.index_file)]
              IN  IF ~disk.doc_chunks_file.readable
                  THEN initialize_vector_store(s1)     \* pickle.load raised
                  ELSE LET s2 == [s1 EXCEPT
                                     !.doc_chunks = pickle_load(disk.doc_chunks_file)]
                       IN  IF s2.index.d # s2.embedding_dim
                           THEN initialize_vector_store(s2)
                           ELSE s2
    ELSE initialize_vector_store(self)

save_vector_store(self, disk, outcome) ==
    CASE outcome = "ok" ->
            [index_file |-> write_index(self.index),
             doc_chunks_file |-> pickle_dump(self.doc_chunks)]
      [] outcome = "index_error" -> disk
      [] outcome = "index_torn" -> [disk EXCEPT !.index_file = TornFile]
      [] outcome = "chunks_error" ->
            [disk EXCEPT !.index_file = write_index(self.index)]
      [] outcome = "chunks_torn" ->
            [index_file |-> write_index(self.index), doc_chunks_file |-> TornFile]

extract_text_from_pdf(pages, readable) ==
    LET RECURSIVE cat(_)
        cat(i) == IF i > Len(pages) THEN <<>>
                  ELSE (IF pages[i] # <<>> THEN pages[i] \o <<"\n">> ELSE <<>>) \o cat(i + 1)
    IN  IF readable THEN cat(1) ELSE <<>>

extract_text_from_txt(pages, readable) ==
    LET RECURSIVE cat(_)
        cat(i) == IF i > Len(pages) THEN <<>> ELSE pages[i] \o cat(i + 1)
    IN  IF readable THEN cat(1) ELSE <<>>

\* a window that loses its last character
window_short(text, start, end) == Slice(text, start, end - 1)

\* text[start:end], the chunk one iteration appends
window(text, start, end) == Slice(text, start, end)

\* a step one character too long
next_start_off_by_one(start, chunk_size, chunk_overlap) ==
    LET end == start + chunk_size
        moved == start + chunk_size - chunk_overlap + 1
    IN  IF moved < 0 THEN end ELSE moved

\* a step that forgets the overlap
next_start_no_overlap(start, chunk_size, chunk_overlap) == start + chunk_size

\* start after one iteration: start += chunk_size - chunk_overlap, then
\* start = end if that made start negative
next_start(start, chunk_size, chunk_overlap) ==
    LET end == start + chunk_size
        moved == start + chunk_size - chunk_overlap
    IN  IF moved < 0 THEN end ELSE moved

\* the chunks the loop appends from start on, for a loop that ends
RECURSIVE split_from(_, _, _, _)
split_from(text, start, chunk_size, chunk_overlap) ==
    IF start < Len(text)
    THEN <<window(text, start, start + chunk_size)>>
             \o split_from(text, next_start(start, chunk_size, chunk_overlap),
                           chunk_size, chunk_overlap)
    ELSE <<>>

split_text_into_chunks(text, chunk_size, chunk_overlap) ==
    IF text = <<>> THEN <<>> ELSE split_from(text, 0, chunk_size, chunk_overlap)

\* the kind add_document takes the file for
file_kind(filename) ==
    IF EndsWith(Lower(filename), <<".","p","d","f">>) THEN "pdf"
    ELSE IF EndsWith(Lower(filename), <<".","t","x","t">>) THEN "txt"
    ELSE "unsupported"

extracted_text(path, pages, readable) ==
    CASE file_kind(basename(path)) = "pdf" -> extract_text_from_pdf(pages, readable)
      [] file_kind(basename(path)) = "txt" -> extract_text_from_txt(pages, readable)
      [] OTHER -> <<>>

\* an off-by-one that leaves the last chunk out of the list
new_doc_chunks_short(chunks, filename) ==
    [j \in 1..(Len(chunks) - 1) |-> [text |-> chunks[j], source |-> filename]]

new_doc_chunks(chunks, filename) ==
    [j \in 1..Len(chunks) |-> [text |-> chunks[j], source |-> filename]]

\* an abandoned ingestion that resets the store on its way out
skip_resets(self, disk, branch) ==
    [self |-> initialize_vector_store(self), disk |-> disk, branch |-> branch,
     save |-> "none", raised |-> FALSE]

\* a return that skips or abandons the document
skip(self, disk, branch) ==
    [self |-> self, disk |-> disk, branch |-> branch, save |-> "none", raised |-> FALSE]

\* the chunk list extended before index.add, which then raises
index_add_rejected_late(self, disk, chunks, filename) ==
    [self |-> [self EXCEPT !.doc_chunks = @ \o new_doc_chunks(chunks, filename)],
     disk |-> disk, branch |-> "index_add_raised", save |-> "none", raised |-> TRUE]

\* index.add raising: the exception leaves add_document before line 191
index_add_rejected(self, disk, chunks, filename) ==
    [self |-> self, disk |-> disk, branch |-> "index_add_raised", save |-> "none",
     raised |-> TRUE]

\* add_document(file_path): pages and readable are what the file system holds
\* at file_path, enc is what encode does, save is how the save ends.  The
\* result is the processor, the disk, the way taken (branch, save), and whether
\* the call left by an exception.
add_document(self, disk, path, pages, readable, enc, save) ==
    LET filename == basename(path)
        text == extracted_text(path, pages, readable)
        chunks == split_text_into_chunks(text, chunk_size_default, chunk_overlap_default)
        chunk_embeddings == encode(chunks, enc)
    IN  IF file_kind(filename) = "unsupported" THEN skip(self, disk, "unsupported")
        ELSE IF text = <<>> THEN skip(self, disk, "no_text")
        ELSE IF chunks = <<>> THEN skip(self, disk, "no_chunks")
        ELSE IF enc = 0 THEN skip(self, disk, "embedding_failed")
        ELSE IF Len(chunk_embeddings) > 0
             THEN IF ~index_add_accepts(self.index, chunk_embeddings)
                  THEN index_add_rejected(self, disk, chunks, filename)
                  ELSE LET added == [self EXCEPT
                                        !.index = index_add(@, chunk_embeddings),
                                        !.doc_chunks = @ \o new_doc_chunks(chunks, filename)]
                       IN  [self |-> added,
                            disk |-> save_vector_store(added, disk, save),
                            branch |-> "added", save |-> save, raised |-> FALSE]
             ELSE skip(self, disk, "no_embeddings")

\* squared Euclidean distance, the metric of IndexFlatL2
L2(u, v) ==
    LET RECURSIVE sum(_)
        sum(i) == IF i > Len(u) THEN 0 ELSE (u[i] - v[i]) * (u[i] - v[i]) + sum(i + 1)
    IN  sum(1)

Min(a, b) == IF a < b THEN a ELSE b

\* index.search(q, k) on an index that accepts q: the results it may give, each
\* the 0-based positions of the min(k, ntotal) nearest vectors by non-decreasing
\* distance (vectors at equal distance in either order), padded with -1 to k
index_search(idx, q, k) ==
    LET n == ntotal(idx)
        m == Min(k, n)
        dist(i) == L2(idx.vecs[i], q)
        nearest == { s \in [1..m -> 1..n] :
                       /\ \A a, b \in 1..m : a < b => s[a] # s[b] /\ dist(s[a]) <= dist(s[b])
                       /\ \A i \in 1..n : (\A a \in 1..m : s[a] # i) => dist(s[m]) <= dist(i) }
    IN  { [j \in 1..k |-> IF j <= m THEN s[j] - 1 ELSE -1] : s \in nearest }

\* the results the search of retrieve_relevant_chunks may give; a call that
\* does not reach the search has the one result <<>>
SearchOutcomes(self, query, k, enc) ==
    IF query # <<>> /\ enc # 0 /\ ntotal(self.index) > 0 /\ enc = self.index.d
    THEN index_search(self.index, Embedding(query, enc), k)
    ELSE {<<>>}

\* a filter that takes position 0 for a placeholder
chunks_at_positive(doc_chunks_, indices) ==
    LET inside(i) == 0 < i /\ i < Len(doc_chunks_)
        kept == SelectSeq(indices, inside)
    IN  [j \in 1..Len(kept) |-> doc_chunks_[kept[j] + 1]]

\* [self.doc_chunks[i] for i in indices[0] if 0 <= i < len(self.doc_chunks)]
chunks_at(doc_chunks_, indices) ==
    LET inside(i) == 0 <= i /\ i < Len(doc_chunks_)
        kept == SelectSeq(indices, inside)
    IN  [j \in 1..Len(kept) |-> doc_chunks_[kept[j] + 1]]

\* a retrieval that answers a failed search with every chunk it holds
retrieve_all_on_failure(self, query, k, enc, found) ==
    IF query = <<>> THEN [branch |-> "empty_query", chunks |-> <<>>]
    ELSE IF enc = 0 THEN [branch |-> "embedding_failed", chunks |-> <<>>]
    ELSE IF ntotal(self.index) = 0 THEN [branch |-> "empty_store", chunks |-> <<>>]
    ELSE IF enc # self.index.d THEN [branch |-> "search_failed", chunks |-> self.doc_chunks]
    ELSE [branch |-> "retrieved", chunks |-> chunks_at(self.doc_chunks, found)]

\* retrieve_relevant_chunks(query, k): enc is what encode does, found is what
\* index.search returns
retrieve_relevant_chunks(self, query, k, enc, found) ==
    IF query = <<>> THEN [branch |-> "empty_query", chunks |-> <<>>]
    ELSE IF enc = 0 THEN [branch |-> "embedding_failed", chunks |-> <<>>]
    ELSE IF ntotal(self.index) = 0 THEN [branch |-> "empty_store", chunks |-> <<>>]
    ELSE IF enc # self.index.d THEN [branch |-> "search_failed", chunks |-> <<>>]
    ELSE [branch |-> "retrieved", chunks |-> chunks_at(self.doc_chunks, found)]

\* texts joined by a single newline
join_newline(texts) ==
    LET RECURSIVE cat(_)
        cat(i) == IF i > Len(texts) THEN <<>>
                  ELSE IF i = Len(texts) THEN texts[i]
                  ELSE texts[i] \o <<"\n">> \o cat(i + 1)
    IN  cat(1)

\* "\n\n".join(texts)
join_blank_line(texts) ==
    LET RECURSIVE cat(_)
        cat(i) == IF i > Len(texts) THEN <<>>
                  ELSE IF i = Len(texts) THEN texts[i]
                  ELSE texts[i] \o <<"\n","\n">> \o cat(i + 1)
    IN  cat(1)

build_context(relevant) ==
    IF relevant = <<>>
    THEN NO_CONTEXT
    ELSE join_blank_line([j \in 1..Len(relevant) |-> relevant[j].text])

IsSpace(c) == c \in {" ", "\n"}

\* str.strip()
RECURSIVE strip(_)
strip(t) ==
    IF t = <<>> THEN t
    ELSE IF IsSpace(t[1]) THEN strip(Tail(t))
    ELSE IF IsSpace(t[Len(t)]) THEN strip(SubSeq(t, 1, Len(t) - 1))
    ELSE t

\* what the completion call may do: raise, or reply with some content
Replies == { <<" ","y","e","s","\n">> }
CompletionOutcomes ==
    {[ok |-> FALSE, content |-> <<>>]} \cup {[ok |-> TRUE, content |-> c] : c \in Replies}

\* the text of the exception raised by a failed completion call
ERROR_TEXT == <<"4","0","1">>

\* an answer_query that appends the text of the exception to its apology
answer_query_leaks(self, query, enc, found, completion) ==
    LET r == retrieve_relevant_chunks(self, query, k_answer, enc, found)
    IN  [branch |-> r.branch,
         chunks |-> r.chunks,
         context |-> build_context(r.chunks),
         answer |-> IF completion.ok THEN strip(completion.content)
                    ELSE APOLOGY \o ERROR_TEXT]

\* answer_query(query): the way retrieval took, what it retrieved, the context
\* of the prompt, and the string returned
answer_query(self, query, enc, found, completion) ==
    LET r == retrieve_relevant_chunks(self, query, k_answer, enc, found)
    IN  [branch |-> r.branch,
         chunks |-> r.chunks,
         context |-> build_context(r.chunks),
         answer |-> IF completion.ok THEN strip(completion.content) ELSE APOLOGY]

-----------------------------------------------------------------------------
(* src/app.py *)

\* filename.rsplit('.', 1)[1]
extension(filename) == SubSeq(filename, LastIndexOf(filename, ".") + 1, Len(filename))

allowed_file(filename) ==
    /\ "." \in Range(filename)
    /\ Lower(extension(filename)) \in ALLOWED_EXTENSIONS

\* the status upload_document answers with, given how add_document ended
upload_status(filename, raised) ==
    IF filename = <<>> THEN 400
    ELSE IF allowed_file(filename) THEN (IF raised THEN 500 ELSE 200)
    ELSE 400

-----------------------------------------------------------------------------
(* The state machine *)

Self == [embedding_dim |-> embedding_dim, index |-> index, doc_chunks |-> doc_chunks]
Disk == [index_file |-> index_file, doc_chunks_file |-> doc_chunks_file]

Call(op, path, branch, save, status) ==
    [op |-> op, path |-> path, branch |-> branch, save |-> save, status |-> status]

\* a call that is no query leaves no query result behind
NoQueryResult == relevant_chunks' = <<>> /\ context' = <<>> /\ answer' = <<>>

\* no call of _split_text_into_chunks is being stepped
NoSplitCall ==
    [pc |-> "idle", text |-> <<>>, chunk_size |-> chunk_size_default,
     chunk_overlap |-> chunk_overlap_default, start |-> 0, chunks |-> <<>>,
     starts |-> <<>>]

\* the request threads: two of them are enough for any pair of calls
Threads == {1, 2}

\* tk.NORMAL, tk.DISABLED
NORMAL == "normal"
DISABLED == "disabled"

\* RagAppGUI(root): the send button starts disabled, no file, nothing started
RagAppGUI ==
    [upload_button |-> NORMAL, send_button |-> DISABLED, query_entry |-> NORMAL,
     current_file |-> "None", text |-> <<>>, dialog |-> FALSE,
     attempts |-> <<>>, after |-> <<>>]

\* no request thread is inside a call
NoThreads == [t \in Threads |-> [pc |-> "idle"]]

\* self.index = None
None == [d |-> 0, vecs |-> <<>>]

\* RAGProcessor(...) in a process started on whatever the disk holds
Construct(dim) ==
    LET fresh == [embedding_dim |-> dim, index |-> None, doc_chunks |-> <<>>]
        loaded == load_vector_store(fresh, Disk)
    IN  /\ embedding_dim' = dim
        /\ index' = loaded.index
        /\ doc_chunks' = loaded.doc_chunks
        /\ UNCHANGED persisted
        /\ last' = Call("restore", <<>>, load_branch(fresh, Disk), "none", 0)
        /\ NoQueryResult
        /\ UNCHANGED <<split_call, threads, gui>>

InitProcessor ==
    /\ embedding_dim \in Dims
    /\ index = IndexFlatL2(embedding_dim)
    /\ doc_chunks = <<>>
    /\ index_file = NoFile
    /\ doc_chunks_file = NoFile
    /\ last = Call("restore", <<>>, "no_store", "none", 0)
    /\ relevant_chunks = <<>>
    /\ context = <<>>
    /\ answer = <<>>

Init ==
    /\ InitProcessor
    /\ split_call = NoSplitCall
    /\ threads = NoThreads
    /\ gui = RagAppGUI

Restart == \E dim \in Dims : Construct(dim)

HasRoom == ntotal(index) < MaxChunks /\ Len(doc_chunks) < MaxChunks

\* What the world may do during add_document(path): whether the file can be
\* read, what encode does, how the save ends.  An outcome is drawn only for a
\* call the code makes; for a call it does not reach one outcome stands in,
\* which add_document never reads.
ReadOutcomes(path) ==
    IF file_kind(basename(path)) = "unsupported" THEN {TRUE} ELSE BOOLEAN

EncodeOutcomesFor(text) == IF text = <<>> THEN {0} ELSE EncodeOutcomes

SaveOutcomesFor(self, chunks, enc) ==
    IF enc = 0 \/ ~index_add_accepts(self.index, encode(chunks, enc))
    THEN {"ok"}
    ELSE SaveOutcomes

\* add_document(path) run to its end, as a step of the processor
RunAddDocument(op, path, pages) ==
    \E readable \in ReadOutcomes(path) :
        LET text == extracted_text(path, pages, readable)
            chunks == split_text_into_chunks(text, chunk_size_default,
                                             chunk_overlap_default)
        IN  \E enc \in EncodeOutcomesFor(text) :
                \E save \in SaveOutcomesFor(Self, chunks, enc) :
                    LET r == add_document(Self, Disk, path, pages, readable, enc, save)
                    IN  /\ index' = r.self.index
                        /\ doc_chunks' = r.self.doc_chunks
                        /\ index_file' = r.disk.index_file
                        /\ doc_chunks_file' = r.disk.doc_chunks_file
                        /\ last' = Call(op, path, r.branch, r.save,
                                        IF op = "upload_document"
                                        THEN upload_status(basename(path), r.raised)
                                        ELSE 0)

\* a direct call of rag_processor.add_document(path) on the file doc
AddDocumentOf(doc) ==
    /\ HasRoom
    /\ UNCHANGED <<embedding_dim, split_call, threads, gui>>
    /\ NoQueryResult
    /\ RunAddDocument("add_document", doc.name, doc.pages)

AddDocument == \E doc \in Documents : AddDocumentOf(doc)

\* a text file that holds the sentence answer_query uses for "no context"
SentinelDocument == [name |-> <<"n",".","t","x","t">>, pages |-> <<NO_CONTEXT>>]

AddSentinelDocument == AddDocumentOf(SentinelDocument)

\* POST /upload with a file of one of the documents' names and content
UploadDocument ==
    \E doc \in Documents :
        LET path == path_join(UPLOAD_FOLDER, doc.name)
        IN  /\ HasRoom
            /\ UNCHANGED <<embedding_dim, split_call, threads, gui>>
            /\ NoQueryResult
            /\ IF allowed_file(doc.name)
               THEN RunAddDocument("upload_document", path, doc.pages)
               ELSE /\ UNCHANGED <<store, persisted>>
                    /\ last' = Call("upload_document", path, "not_allowed", "none",
                                    upload_status(doc.name, FALSE))

Queries == { <<>>, <<"a","b">>, <<"q">> }

Ks == (1..MaxK) \cup {k_default}

\* a direct call of rag_processor.retrieve_relevant_chunks(query, k); the
\* record of the call keeps k beside the query
Retrieve ==
    \E query \in Queries, k \in Ks :
        \E enc \in EncodeOutcomesFor(query) :
            \E found \in SearchOutcomes(Self, query, k, enc) :
                LET r == retrieve_relevant_chunks(Self, query, k, enc, found)
                IN  /\ relevant_chunks' = r.chunks
                    /\ context' = <<>>
                    /\ answer' = <<>>
                    /\ last' = [op |-> "retrieve_relevant_chunks", path |-> query,
                                 branch |-> r.branch, save |-> "none", status |-> 0,
                                 k |-> k]
                    /\ UNCHANGED <<embedding_dim, store, persisted, split_call, threads, gui>>

\* a call of rag_processor.answer_query(query); the record of the call keeps
\* whether the completion call succeeded
AnswerQuery ==
    \E query \in Queries, completion \in CompletionOutcomes :
        \E enc \in EncodeOutcomesFor(query) :
            \E found \in SearchOutcomes(Self, query, k_answer, enc) :
                LET r == answer_query(Self, query, enc, found, completion)
                IN  /\ relevant_chunks' = r.chunks
                    /\ context' = r.context
                    /\ answer' = r.answer
                    /\ last' = [op |-> "answer_query", path |-> query,
                                 branch |-> r.branch, save |-> "none", status |-> 0,
                                 completed |-> completion.ok]
                    /\ UNCHANGED <<embedding_dim, store, persisted, split_call, threads, gui>>

\* the processor used through its own operations
Next ==
    \/ Restart
    \/ AddDocument

Spec == Init /\ [][Next]_vars

\* the processor used through the upload handler
NextUpload ==
    \/ Restart
    \/ UploadDocument

SpecUpload == Init /\ [][NextUpload]_vars

\* one process on a store it initialized: ingestion and queries in turn
NextSession ==
    \/ AddDocument
    \/ Retrieve
    \/ AnswerQuery

SpecSession == Init /\ [][NextSession]_vars

\* one process answering queries over what it ingested, the file that holds
\* the "no context" sentence among the documents
NextAnswer ==
    \/ AddDocument
    \/ AddSentinelDocument
    \/ AnswerQuery

SpecAnswer == Init /\ [][NextAnswer]_vars

-----------------------------------------------------------------------------
(* _split_text_into_chunks, one statement at a time *)

Alphabet == {"a", "b"}

\* the texts of up to n characters
Texts(n) == UNION { [1..m -> Alphabet] : m \in 0..n }

\* the text of the chunking scenario: 1200 characters
ScenarioText == [i \in 1..1200 |-> IF i % 2 = 1 THEN "a" ELSE "b"]

\* a call that has just been made
Called(text, chunk_size, chunk_overlap) ==
    [pc |-> "call", text |-> text, chunk_size |-> chunk_size,
     chunk_overlap |-> chunk_overlap, start |-> 0, chunks |-> <<>>, starts |-> <<>>]

\* the calls that are stepped: short texts with every small size and overlap
\* (an overlap of the size or more included), and the scenario text with the
\* default size and overlap
SplitCalls ==
    { Called(t, size, overlap) :
        t \in Texts(MaxLen), size \in 1..MaxSize, overlap \in 0..MaxOverlap }
    \cup { Called(ScenarioText, chunk_size_default, chunk_overlap_default) }

InitSplit ==
    /\ InitProcessor
    /\ split_call \in SplitCalls
    /\ threads = NoThreads
    /\ gui = RagAppGUI

processor == <<embedding_dim, index, doc_chunks, index_file, doc_chunks_file, last,
               relevant_chunks, context, answer>>

\* if not text: return []
SplitReturnEmpty ==
    /\ split_call.pc = "call"
    /\ split_call.text = <<>>
    /\ split_call' = [split_call EXCEPT !.pc = "return"]
    /\ UNCHANGED <<processor, threads, gui>>

\* chunks = []; start = 0
SplitBegin ==
    /\ split_call.pc = "call"
    /\ split_call.text # <<>>
    /\ split_call' = [split_call EXCEPT !.pc = "while", !.chunks = <<>>, !.start = 0]
    /\ UNCHANGED <<processor, threads, gui>>

\* one iteration of the while loop.  A loop that ends appends at most one
\* chunk per character; the model stops stepping a loop that has appended more.
SplitIterate ==
    LET c == split_call
        end == c.start + c.chunk_size
    IN  /\ c.pc = "while"
        /\ c.start < Len(c.text)
        /\ Len(c.chunks) <= Len(c.text)
        /\ split_call' = [c EXCEPT
               !.chunks = Append(@, window(c.text, c.start, end)),
               !.starts = Append(@, c.start),
               !.start = next_start(c.start, c.chunk_size, c.chunk_overlap)]
        /\ UNCHANGED <<processor, threads, gui>>

\* the loop condition fails: return chunks
SplitReturn ==
    /\ split_call.pc = "while"
    /\ ~(split_call.start < Len(split_call.text))
    /\ split_call' = [split_call EXCEPT !.pc = "return"]
    /\ UNCHANGED <<processor, threads, gui>>

NextSplit ==
    \/ SplitReturnEmpty
    \/ SplitBegin
    \/ SplitIterate
    \/ SplitReturn

SpecSplit == InitSplit /\ [][NextSplit]_vars

-----------------------------------------------------------------------------
(* add_document in two request threads.  app.run serves each request in a   *)
(* thread of its own and every request uses the one rag_processor, without  *)
(* a lock.  A thread may be preempted between any two statements, and a     *)
(* file written through open / write / close is truncated when opened and   *)
(* takes its content when the buffered bytes are flushed: the bytes of the  *)
(* last flush are what a later load reads.  The embedding model and the     *)
(* file system work.                                                         *)

At(t, pc) == threads[t].pc = pc

Goto(t, pc) == threads' = [threads EXCEPT ![t].pc = pc]

quiet == <<embedding_dim, last, relevant_chunks, context, answer, split_call, gui>>

\* lines 155-185: the thread extracts, chunks and embeds its document; none of
\* this touches the store
BeginAdd(t, doc) ==
    LET filename == basename(doc.name)
        text == extracted_text(doc.name, doc.pages, TRUE)
        chunks == split_text_into_chunks(text, chunk_size_default, chunk_overlap_default)
    IN  /\ At(t, "idle")
        /\ threads' = [threads EXCEPT ![t] =
               IF file_kind(filename) = "unsupported" \/ text = <<>> \/ chunks = <<>>
               THEN [pc |-> "return", op |-> "add_document", filename |-> filename,
                     chunks |-> <<>>]
               ELSE [pc |-> "index_add", op |-> "add_document", filename |-> filename,
                     chunks |-> chunks,
                     chunk_embeddings |-> encode(chunks, embedding_dim),
                     i |-> 0, index_buffer |-> NoFile, chunks_buffer |-> NoFile]]
        /\ UNCHANGED <<store, persisted, quiet>>

\* line 189: self.index.add(chunk_embeddings)
ThreadIndexAdd(t) ==
    /\ At(t, "index_add")
    /\ index' = index_add(index, threads[t].chunk_embeddings)
    /\ Goto(t, "append")
    /\ UNCHANGED <<doc_chunks, persisted, quiet>>

\* lines 191-192: one iteration of the append loop
ThreadAppend(t) ==
    LET w == threads[t]
    IN  /\ At(t, "append")
        /\ w.i < Len(w.chunks)
        /\ doc_chunks' = Append(doc_chunks,
                                [text |-> w.chunks[w.i + 1], source |-> w.filename])
        /\ threads' = [threads EXCEPT ![t].i = w.i + 1]
        /\ UNCHANGED <<index, persisted, quiet>>

\* the loop is over: _save_vector_store is entered (line 196)
ThreadAppendDone(t) ==
    /\ At(t, "append")
    /\ threads[t].i = Len(threads[t].chunks)
    /\ Goto(t, "write_index")
    /\ UNCHANGED <<store, persisted, quiet>>

\* line 91, faiss.write_index: the file is opened for writing
ThreadOpenIndexFile(t) ==
    /\ At(t, "write_index")
    /\ index_file' = TornFile
    /\ Goto(t, "write_index_data")
    /\ UNCHANGED <<store, doc_chunks_file, quiet>>

\* faiss.write_index: the index is serialized
ThreadWriteIndex(t) ==
    /\ At(t, "write_index_data")
    /\ threads' = [threads EXCEPT ![t].index_buffer = write_index(index),
                                  ![t].pc = "write_index_close"]
    /\ UNCHANGED <<store, persisted, quiet>>

\* faiss.write_index: the file is closed and holds what was serialized
ThreadCloseIndexFile(t) ==
    /\ At(t, "write_index_close")
    /\ index_file' = threads[t].index_buffer
    /\ Goto(t, "open")
    /\ UNCHANGED <<store, doc_chunks_file, quiet>>

\* line 93: open(self.doc_chunks_file, 'wb')
ThreadOpenChunksFile(t) ==
    /\ At(t, "open")
    /\ doc_chunks_file' = TornFile
    /\ Goto(t, "pickle_dump")
    /\ UNCHANGED <<store, index_file, quiet>>

\* line 94: pickle.dump(self.doc_chunks, f)
ThreadPickleDump(t) ==
    /\ At(t, "pickle_dump")
    /\ threads' = [threads EXCEPT ![t].chunks_buffer = pickle_dump(doc_chunks),
                                  ![t].pc = "close"]
    /\ UNCHANGED <<store, persisted, quiet>>

\* the end of the with block of line 93: the file is closed, and add_document
\* returns
ThreadCloseChunksFile(t) ==
    /\ At(t, "close")
    /\ doc_chunks_file' = threads[t].chunks_buffer
    /\ Goto(t, "return")
    /\ UNCHANGED <<store, index_file, quiet>>

NextConcurrentAdd ==
    \E t \in Threads :
        \/ \E doc \in Documents : BeginAdd(t, doc)
        \/ ThreadIndexAdd(t)
        \/ ThreadAppend(t)
        \/ ThreadAppendDone(t)
        \/ ThreadOpenIndexFile(t)
        \/ ThreadWriteIndex(t)
        \/ ThreadCloseIndexFile(t)
        \/ ThreadOpenChunksFile(t)
        \/ ThreadPickleDump(t)
        \/ ThreadCloseChunksFile(t)

SpecConcurrentAdd == Init /\ [][NextConcurrentAdd]_vars

-----------------------------------------------------------------------------
(* retrieve_relevant_chunks and answer_query in two request threads, on a   *)
(* store that no thread is changing.                                        *)

\* the store and the disk after add_document has ingested and saved docs, in
\* order, starting from an empty store of dimension dim
RECURSIVE Ingested(_, _)
Ingested(dim, docs) ==
    IF docs = <<>>
    THEN [self |-> [embedding_dim |-> dim, index |-> IndexFlatL2(dim), doc_chunks |-> <<>>],
          disk |-> [index_file |-> NoFile, doc_chunks_file |-> NoFile]]
    ELSE LET before == Ingested(dim, SubSeq(docs, 1, Len(docs) - 1))
             doc == docs[Len(docs)]
             r == add_document(before.self, before.disk, doc.name, doc.pages, TRUE, dim, "ok")
         IN  [self |-> r.self, disk |-> r.disk]

TextDocument == CHOOSE doc \in Documents : doc.name = <<"a",".","t","x","t">>
PdfDocument == CHOOSE doc \in Documents : doc.name = <<"B",".","P","D","F">>

\* the stores the readers run on: empty, one document, two documents
ReadStores(dim) ==
    { Ingested(dim, <<>>),
      Ingested(dim, <<TextDocument>>),
      Ingested(dim, <<PdfDocument, TextDocument>>) }

InitRead ==
    /\ embedding_dim \in Dims
    /\ \E s \in ReadStores(embedding_dim) :
          /\ index = s.self.index
          /\ doc_chunks = s.self.doc_chunks
          /\ index_file = s.disk.index_file
          /\ doc_chunks_file = s.disk.doc_chunks_file
    /\ last = Call("restore", <<>>, "no_store", "none", 0)
    /\ relevant_chunks = <<>>
    /\ context = <<>>
    /\ answer = <<>>
    /\ split_call = NoSplitCall
    /\ threads = NoThreads
    /\ gui = RagAppGUI

\* a thread returns from its call with the chunks it retrieved
Return(t, branch, chunks) ==
    threads' = [threads EXCEPT ![t] =
                   [pc |-> "return", op |-> threads[t].op, query |-> threads[t].query,
                    k |-> threads[t].k, enc |-> threads[t].enc,
                    branch |-> branch, relevant_chunks |-> chunks]]

shared == <<embedding_dim, index, doc_chunks, index_file, doc_chunks_file, last,
            relevant_chunks, context, answer, split_call, gui>>

\* line 205 (and line 253 for answer_query, which retrieves with k = 5)
BeginRetrieve(t, op, query, k) ==
    /\ At(t, "idle")
    /\ threads' = [threads EXCEPT ![t] =
           IF query = <<>>
           THEN [pc |-> "return", op |-> op, query |-> query, k |-> k, enc |-> 0,
                 branch |-> "empty_query", relevant_chunks |-> <<>>]
           ELSE [pc |-> "encode", op |-> op, query |-> query, k |-> k, enc |-> 0]]
    /\ UNCHANGED shared

\* lines 209-215: the query is embedded, or encode raises
ThreadEncode(t) ==
    /\ At(t, "encode")
    /\ \E enc \in EncodeOutcomes :
          IF enc = 0
          THEN Return(t, "embedding_failed", <<>>)
          ELSE threads' = [threads EXCEPT
                              ![t] = [pc |-> "ntotal", op |-> @.op, query |-> @.query,
                                      k |-> @.k, enc |-> enc,
                                      query_embedding |-> Embedding(@.query, enc)]]
    /\ UNCHANGED shared

\* lines 217-219
ThreadCheckStore(t) ==
    /\ At(t, "ntotal")
    /\ IF ntotal(index) = 0
       THEN Return(t, "empty_store", <<>>)
       ELSE Goto(t, "search")
    /\ UNCHANGED shared

\* a reader that takes the query vector of thread 1, as if the vector were
\* kept in an attribute of the processor
query_embedding_shared(t) ==
    IF "query_embedding" \in DOMAIN threads[1]
    THEN threads[1].query_embedding
    ELSE threads[t].query_embedding

\* query_embedding is a local variable of the call
query_embedding_of(t) == threads[t].query_embedding

\* line 225: index.search; a vector of another width than the index raises
\* (line 238)
ThreadSearch(t) ==
    LET q == query_embedding_of(t)
    IN  /\ At(t, "search")
        /\ IF Len(q) # index.d
           THEN Return(t, "search_failed", <<>>)
           ELSE \E found \in index_search(index, q, threads[t].k) :
                    threads' = [threads EXCEPT
                        ![t] = [pc |-> "lookup", op |-> @.op, query |-> @.query,
                                k |-> @.k, enc |-> @.enc, indices |-> found]]
        /\ UNCHANGED shared

\* line 230: the chunks at the positions found; retrieve_relevant_chunks
\* returns them
ThreadLookup(t) ==
    /\ At(t, "lookup")
    /\ Return(t, "retrieved", chunks_at(doc_chunks, threads[t].indices))
    /\ UNCHANGED shared

\* lines 256-303 of answer_query, after its retrieval has returned: the
\* context, the completion call and the answer
ThreadAnswer(t) ==
    /\ At(t, "return")
    /\ threads[t].op = "answer_query"
    /\ \E completion \in CompletionOutcomes :
          threads' = [threads EXCEPT ![t] =
              [pc |-> "return", op |-> "answered", query |-> @.query, k |-> @.k,
               enc |-> @.enc, branch |-> @.branch, relevant_chunks |-> @.relevant_chunks,
               context |-> build_context(@.relevant_chunks),
               answer |-> IF completion.ok THEN strip(completion.content) ELSE APOLOGY]]
    /\ UNCHANGED shared

NextConcurrentRead ==
    \E t \in Threads :
        \/ \E query \in Queries, k \in Ks :
              BeginRetrieve(t, "retrieve_relevant_chunks", query, k)
        \/ \E query \in Queries : BeginRetrieve(t, "answer_query", query, k_answer)
        \/ ThreadEncode(t)
        \/ ThreadCheckStore(t)
        \/ ThreadSearch(t)
        \/ ThreadLookup(t)
        \/ ThreadAnswer(t)

SpecConcurrentRead == InitRead /\ [][NextConcurrentRead]_vars

-----------------------------------------------------------------------------
(* The desktop client, gui.py: the Tk main loop runs the handlers of the    *)
(* user's actions and the callbacks scheduled with root.after; each upload  *)
(* and each query runs in a background thread of its own.                   *)

MaxAttempts == 3

Filepaths == {"/docs/a.txt", "/docs/b.pdf"}

\* what the user may have in the query field: nothing, a blank, a question
EntryTexts == { <<>>, <<" ">>, <<"q">> }

\* how requests.post and raise_for_status end in a background thread
Outcomes ==
    {"ok_json", "ok_not_json", "connection_error", "timeout",
     "http_error_json", "http_error_not_json", "request_exception", "exception"}

\* a Python value: a str, or the _tkinter.Tcl_Obj that wraps a Tcl value
py_str(s) == [type |-> "str", string |-> s]

Tcl_Obj(s) == [type |-> "Tcl_Obj", string |-> s]

\* a == b: a Tcl_Obj is equal to a Tcl_Obj of the same string and to no str
py_eq(a, b) == a.type = b.type /\ a.string = b.string

\* widget['state'] of a ttk widget. Tk validates the option with
\* Tcl_GetIndexFromObj (TtkCheckStateOption), which gives the value Tcl's
\* "index" type, and tkinter hands a value of a type it has no conversion for
\* to Python as a Tcl_Obj (<index object: 'disabled'>), not as a str
cget_state(state) == Tcl_Obj(state)

\* if self.current_file:
truthy(value) == value \notin {"None", ""}

\* threading.Thread(target=..., daemon=True).start()
start_thread(g, kind) ==
    [g EXCEPT !.attempts = Append(@, [kind |-> kind, pc |-> "thread_started",
                                     opened |-> FALSE, posts |-> 0, success |-> FALSE,
                                     callbacks |-> 0, errors |-> 0])]

\* select_and_upload_file up to the file dialog (lines 116-121): TRUE when it
\* goes on to open the dialog
upload_guard_passes(g) ==
    ~py_eq(cget_state(g.upload_button), py_str(DISABLED))

\* select_and_upload_file from the return of the dialog (lines 125-139);
\* filepath is "" when the user cancelled
select_and_upload_file(g, filepath) ==
    IF ~truthy(filepath)
    THEN [g EXCEPT !.dialog = FALSE]
    ELSE start_thread([g EXCEPT !.dialog = FALSE,
                                !.current_file = filepath,
                                !.send_button = DISABLED,
                                !.upload_button = DISABLED], "upload")

send_query(g) ==
    IF py_eq(cget_state(g.send_button), py_str(DISABLED))
    THEN g
    ELSE IF strip(g.text) = <<>>
         THEN g
         ELSE start_thread([g EXCEPT !.text = <<>>,
                                     !.send_button = DISABLED,
                                     !.query_entry = DISABLED,
                                     !.upload_button = DISABLED], "query")

\* a thread that gives up on a timeout without scheduling its callback
upload_file_thread_silent(outcome) ==
    [scheduled |-> outcome # "timeout", success |-> outcome \in {"ok_json", "ok_not_json"}]

\* _upload_file_thread after requests.post: every path ends in one
\* root.after(0, self._update_gui_after_upload, success, ...)
upload_file_thread(outcome) ==
    [scheduled |-> TRUE, success |-> outcome \in {"ok_json", "ok_not_json"}]

\* _query_backend_thread after requests.post: a body that is not JSON is
\* reported as an error
query_backend_thread(outcome) ==
    [scheduled |-> TRUE, success |-> outcome = "ok_json"]

\* a client that posts again after a timeout
retry_on_timeout(outcome) == outcome = "timeout"

\* neither thread has a loop around requests.post
retry(outcome) == FALSE

update_gui_after_upload(g, success) ==
    LET shown == IF success
                 THEN [g EXCEPT !.send_button = NORMAL]
                 ELSE [g EXCEPT !.current_file = "None"]
    IN  [shown EXCEPT !.upload_button = NORMAL]

update_gui_after_query(g, success) ==
    [g EXCEPT !.send_button = IF truthy(g.current_file) THEN NORMAL ELSE DISABLED,
              !.query_entry = NORMAL,
              !.upload_button = NORMAL]

\* add_message(message, "error") in the callbacks: once on failure
error_messages(success) == IF success THEN 0 ELSE 1

backend == <<embedding_dim, index, doc_chunks, index_file, doc_chunks_file, last,
             relevant_chunks, context, answer, split_call, threads>>

Attempts == 1..Len(gui.attempts)

\* the user types in the query field; a disabled entry takes no input
Type ==
    /\ ~gui.dialog
    /\ gui.query_entry = NORMAL
    /\ \E text \in EntryTexts : gui' = [gui EXCEPT !.text = text]
    /\ UNCHANGED backend

\* the user presses the upload button; Tk runs the command of a button only
\* when the button is not disabled. The handler stays in
\* filedialog.askopenfilename, where Tk keeps serving timers, until DialogReturn
ClickUpload ==
    /\ ~gui.dialog
    /\ gui.upload_button = NORMAL
    /\ Len(gui.attempts) < MaxAttempts
    /\ upload_guard_passes(gui)
    /\ gui' = [gui EXCEPT !.dialog = TRUE]
    /\ UNCHANGED backend

DialogReturn ==
    /\ gui.dialog
    /\ \E filepath \in Filepaths \cup {""} :
          gui' = select_and_upload_file(gui, filepath)
    /\ UNCHANGED backend

\* the user presses the send button
ClickSend ==
    /\ ~gui.dialog
    /\ gui.send_button = NORMAL
    /\ Len(gui.attempts) < MaxAttempts
    /\ gui' = send_query(gui)
    /\ UNCHANGED backend

\* the user presses Enter in the query field: the <Return> binding of the
\* entry (line 98) calls send_query whatever the state of the send button
PressReturn ==
    /\ ~gui.dialog
    /\ Len(gui.attempts) < MaxAttempts
    /\ gui' = send_query(gui)
    /\ UNCHANGED backend

\* the background thread reaches requests.post; the upload thread opens the
\* file first (line 150), and when that raises it posts nothing
ThreadPost(a) ==
    /\ gui.attempts[a].pc = "thread_started"
    /\ \E opened \in IF gui.attempts[a].kind = "upload" THEN BOOLEAN ELSE {TRUE} :
          gui' = IF opened
                 THEN [gui EXCEPT !.attempts[a].pc = "posting",
                                  !.attempts[a].opened = TRUE,
                                  !.attempts[a].posts = 1]
                 ELSE [gui EXCEPT !.attempts[a].pc = "scheduled",
                                  !.after = Append(@, a)]
    /\ UNCHANGED backend

\* requests.post returns or raises, and the thread schedules its callback
ThreadResponse(a) ==
    /\ gui.attempts[a].pc = "posting"
    /\ \E outcome \in Outcomes :
          LET r == IF gui.attempts[a].kind = "upload"
                   THEN upload_file_thread(outcome)
                   ELSE query_backend_thread(outcome)
          IN  gui' = IF retry(outcome) /\ gui.attempts[a].posts < 2
                     THEN [gui EXCEPT !.attempts[a].posts = @ + 1]
                     ELSE IF r.scheduled
                          THEN [gui EXCEPT !.attempts[a].pc = "scheduled",
                                           !.attempts[a].success = r.success,
                                           !.after = Append(@, a)]
                          ELSE [gui EXCEPT !.attempts[a].pc = "thread_ended"]
    /\ UNCHANGED backend

\* the main loop runs the callback that was scheduled first
RunCallback ==
    /\ gui.after # <<>>
    /\ LET a == Head(gui.after)
           success == gui.attempts[a].success
           updated == IF gui.attempts[a].kind = "upload"
                      THEN update_gui_after_upload(gui, success)
                      ELSE update_gui_after_query(gui, success)
       IN  gui' = [updated EXCEPT !.after = Tail(@),
                                  !.attempts[a].pc = "done",
                                  !.attempts[a].callbacks = @ + 1,
                                  !.attempts[a].errors = @ + error_messages(success)]
    /\ UNCHANGED backend

NextGui ==
    \/ Type
    \/ ClickUpload
    \/ DialogReturn
    \/ ClickSend
    \/ PressReturn
    \/ \E a \in Attempts : ThreadPost(a)
    \/ \E a \in Attempts : ThreadResponse(a)
    \/ RunCallback

SpecGui == Init /\ [][NextGui]_vars

\* threads run and the main loop serves its timer queue
FairGui ==
    /\ \A a \in 1..MaxAttempts :
          /\ WF_vars(a \in Attempts /\ ThreadPost(a))
          /\ WF_vars(a \in Attempts /\ ThreadResponse(a))
    /\ WF_vars(RunCallback)

SpecGuiFair == SpecGui /\ FairGui

-----------------------------------------------------------------------------
(* Properties *)

IsPrefix(s, t) == Len(s) <= Len(t) /\ SubSeq(t, 1, Len(s)) = s

BothLoadable == index_file.readable /\ doc_chunks_file.readable

Ingestions == {"add_document", "upload_document"}

\* C1: in one process that started with an initialized store, after every
\* completed add_document, retrieve_relevant_chunks or answer_query call the
\* index holds as many vectors as doc_chunks holds entries.
C1_CountInvariant == ntotal(index) = Len(doc_chunks)

C1_Witness ==
    /\ last.op = "add_document" /\ last.branch = "added"
    /\ ntotal(index) = Len(doc_chunks) /\ Len(doc_chunks) >= 3

\* C2: a restore that finds both artifacts loadable but with different
\* numbers of entries leaves an empty store.
C2_CountMismatchResets ==
    (/\ last.op = "restore" /\ BothLoadable
     /\ Len(index_file.vecs) # Len(doc_chunks_file.chunks))
        => (ntotal(index) = 0 /\ doc_chunks = <<>>)

\* C3: a restore that finds a persisted index of another dimension than the
\* embedding dimension goes through the dimension check, not the exception
\* handler, and leaves an empty index of the embedding dimension and no chunks.
C3_DimMismatchResets ==
    (last.op = "restore" /\ BothLoadable /\ index_file.d # embedding_dim)
        => /\ last.branch = "dim_mismatch"
           /\ index.d = embedding_dim /\ index.vecs = <<>>
           /\ doc_chunks = <<>>

C3_Witness ==
    /\ last.op = "restore" /\ BothLoadable /\ index_file.d # embedding_dim
    /\ index_file.vecs # <<>> /\ doc_chunks_file.chunks # <<>>
    /\ doc_chunks = <<>>

\* C4: a processor constructed with the same dimension right after an
\* add_document that appended and saved holds the same chunks and the same
\* vectors, in the same order.
C4_RoundTrip ==
    [][(/\ last.op = "add_document" /\ last.branch = "added" /\ last.save = "ok"
        /\ last'.op = "restore" /\ embedding_dim' = embedding_dim)
          => (doc_chunks' = doc_chunks /\ index'.vecs = index.vecs /\ index'.d = index.d)]_vars

C4_Witness ==
    /\ last.op = "restore" /\ last.branch = "loaded"
    /\ Len(doc_chunks) >= 3 /\ ntotal(index) = Len(doc_chunks)
    /\ \E j \in 1..Len(doc_chunks) : doc_chunks[j].source # doc_chunks[1].source

\* C5: whenever both persisted artifacts can be loaded they hold the same
\* number of entries.
C5_PairConsistent ==
    BothLoadable => Len(index_file.vecs) = Len(doc_chunks_file.chunks)

\* C6: after an add_document that appended chunks, the persisted store equals
\* the store in memory.
C6_PersistedAfterAdd ==
    (last.op \in Ingestions /\ last.branch = "added")
        => /\ BothLoadable
           /\ index_file.d = index.d /\ index_file.vecs = index.vecs
           /\ doc_chunks_file.chunks = doc_chunks

Abandoned == {"unsupported", "no_text", "embedding_failed"}

\* C7: an add_document that ends on an unsupported kind, on no extracted text
\* or on a failed embedding changes neither the store in memory nor either
\* persisted artifact.
C7_AbandonedUntouched ==
    [][(last'.op \in Ingestions /\ last'.branch \in Abandoned)
          => UNCHANGED <<index, doc_chunks, index_file, doc_chunks_file>>]_vars

C7_Witness ==
    /\ last.op = "add_document" /\ last.branch = "embedding_failed"
    /\ doc_chunks # <<>> /\ BothLoadable

\* C8: an add_document whose index.add raises changes neither the vectors nor
\* the chunks, and persists nothing.
C8_RejectedAddUntouched ==
    [][last'.branch = "index_add_raised"
          => UNCHANGED <<index, doc_chunks, index_file, doc_chunks_file>>]_vars

C8_Witness ==
    /\ last.op = "add_document" /\ last.branch = "index_add_raised"
    /\ doc_chunks # <<>> /\ ntotal(index) = Len(doc_chunks)

\* the document handed in at path
DocumentAt(path) == CHOOSE doc \in Documents : EndsWith(path, doc.name)

\* the windows of text: window j starts (j - 1) steps in and is size long
Windows(text, size, overlap) ==
    LET step == size - overlap
        n == (Len(text) + step - 1) \div step
    IN  [j \in 1..n |-> Slice(text, (j - 1) * step, (j - 1) * step + size)]

IsBaseNameOf(name, path) ==
    /\ EndsWith(path, name)
    /\ "/" \notin Range(name)
    /\ Len(name) < Len(path) => path[Len(path) - Len(name)] = "/"

C10_OutcomeReported ==
    (last.op = "upload_document" /\ last.branch \in Abandoned) => last.status # 200

\* C11: on every iteration of the loop of _split_text_into_chunks, whatever
\* the size (>= 1) and the overlap (>= 0, the size or more included), start
\* strictly advances, so the loop ends.
C11_StartAdvances ==
    [][(split_call.pc = "while" /\ split_call'.pc = "while")
          => split_call'.start > split_call.start]_vars

Returned == split_call.pc = "return"

\* the last n characters and the first n characters of a chunk
LastChars(chunk, n) == SubSeq(chunk, Len(chunk) - n + 1, Len(chunk))
FirstChars(chunk, n) == SubSeq(chunk, 1, n)

\* chunks j and j + 1 overlap by exactly n characters, chunk j + 1 starting
\* step positions after chunk j
OverlapBy(j, n, step) ==
    LET c == split_call
    IN  /\ c.starts[j + 1] = c.starts[j] + step
        /\ Len(c.chunks[j]) >= n
        /\ Len(c.chunks[j + 1]) >= n
        /\ LastChars(c.chunks[j], n) = FirstChars(c.chunks[j + 1], n)

\* C12 as stated: for 0 <= overlap < size, every pair of consecutive chunks
\* other than the pair ending in the final chunk overlaps by exactly overlap
\* characters, chunk j + 1 starting size - overlap positions after chunk j.
C12_ConsecutiveOverlap ==
    LET c == split_call
    IN  (Returned /\ c.chunk_overlap < c.chunk_size)
            => \A j \in 1..(Len(c.chunks) - 2) :
                   OverlapBy(j, c.chunk_overlap, c.chunk_size - c.chunk_overlap)

\* C12 amended: for 0 <= overlap < size, chunk j + 1 starts size - overlap
\* positions after chunk j for every pair of consecutive chunks, and the pair
\* overlaps by exactly overlap characters whenever chunk j + 1 is at least
\* overlap characters long; when 2 * overlap <= size that is every pair other
\* than the pair ending in the final chunk.
C12_OverlapOfLongEnoughChunks ==
    LET c == split_call
        step == c.chunk_size - c.chunk_overlap
    IN  (Returned /\ c.chunk_overlap < c.chunk_size)
            => \A j \in 1..(Len(c.chunks) - 1) :
                   /\ c.starts[j + 1] = c.starts[j] + step
                   /\ Len(c.chunks[j + 1]) >= c.chunk_overlap
                         => OverlapBy(j, c.chunk_overlap, step)
                   /\ (2 * c.chunk_overlap <= c.chunk_size /\ j + 1 < Len(c.chunks))
                         => OverlapBy(j, c.chunk_overlap, step)

C12_Witness ==
    LET c == split_call
    IN  /\ Returned
        /\ c.chunk_overlap >= 1 /\ 2 * c.chunk_overlap <= c.chunk_size
        /\ Len(c.chunks) >= 3
        /\ c.text[c.starts[2]] # c.text[c.starts[2] + 1]

\* C13: for 0 <= overlap < size the call returns chunks, an empty sequence
\* exactly for the empty text; every chunk is 1 to size characters long; and
\* every character position of the text lies in a chunk that holds the
\* text's character there, the final partial window included.
C13_EmptinessAndBounds ==
    LET c == split_call
    IN  (Returned /\ c.chunk_overlap < c.chunk_size)
            => /\ (c.chunks # <<>>) <=> (c.text # <<>>)
               /\ \A j \in 1..Len(c.chunks) :
                     Len(c.chunks[j]) >= 1 /\ Len(c.chunks[j]) <= c.chunk_size
               /\ \A p \in 1..Len(c.text) :
                     \E j \in 1..Len(c.chunks) :
                         /\ c.starts[j] < p
                         /\ p <= c.starts[j] + Len(c.chunks[j])
                         /\ c.chunks[j][p - c.starts[j]] = c.text[p]

\* a call that returned a final window shorter than the size, after a full one
C13_Witness ==
    LET c == split_call
        n == Len(c.chunks)
    IN  /\ Returned /\ c.chunk_overlap < c.chunk_size
        /\ n >= 2
        /\ Len(c.chunks[1]) = c.chunk_size
        /\ Len(c.chunks[n]) < c.chunk_size
        /\ c.starts[n] + Len(c.chunks[n]) = Len(c.text)
        /\ c.starts[n - 1] + Len(c.chunks[n - 1]) < Len(c.text)

\* the scenario: a 1200-character text split with size 500 and overlap 50
ScenarioReturned ==
    /\ Returned
    /\ Len(split_call.text) = 1200
    /\ split_call.chunk_size = 500
    /\ split_call.chunk_overlap = 50

Lengths(chunks) == [j \in 1..Len(chunks) |-> Len(chunks[j])]

Retrieved == last.op = "retrieve_relevant_chunks" /\ last.branch = "retrieved"

\* the query vector of the last retrieval that reached the search
QueryVector == Embedding(last.path, index.d)

\* positions is a choice of different entries of the store, each no nearer to
\* the query vector than the one before, and no entry left out is nearer than
\* the last one chosen
NearestInOrder(positions) ==
    LET m == Len(positions)
        dist(i) == L2(index.vecs[i], QueryVector)
    IN  /\ \A a, b \in 1..m :
              a < b => positions[a] # positions[b]
                       /\ dist(positions[a]) <= dist(positions[b])
        /\ \A i \in 1..ntotal(index) :
              (m > 0 /\ \A a \in 1..m : positions[a] # i) => dist(positions[m]) <= dist(i)

\* C15: a retrieve_relevant_chunks(query, k) with a non-empty query whose
\* embedding and search succeed, on a store of n vectors and n chunks, returns
\* exactly min(k, n) chunks: the chunks of min(k, n) different entries, nearest
\* first by non-decreasing distance of their vectors to the query vector.  The
\* -1 placeholders of the search are skipped.
C15_CountAndOrder ==
    (Retrieved /\ ntotal(index) = Len(doc_chunks))
        => LET m == Min(last.k, ntotal(index))
           IN  /\ last.path # <<>>
               /\ Len(relevant_chunks) = m
               /\ \E positions \in [1..m -> 1..ntotal(index)] :
                     /\ NearestInOrder(positions)
                     /\ \A j \in 1..m : relevant_chunks[j] = doc_chunks[positions[j]]

\* a retrieval with k above the number of entries, from a store of three
\* entries at three different distances
C15_Witness ==
    /\ Retrieved
    /\ ntotal(index) = 3 /\ Len(doc_chunks) = 3
    /\ last.k > 3
    /\ Len(relevant_chunks) = 3
    /\ \A i, j \in 1..3 :
          i # j => L2(index.vecs[i], QueryVector) # L2(index.vecs[j], QueryVector)
    /\ relevant_chunks[1] # doc_chunks[1]

\* C16: in every state reached by restores and add_document calls made one
\* after the other, the vector at position i is the embedding of the text of
\* the chunk at position i (stated for the positions that hold both a vector
\* and a chunk), so that the nearest vector leads to its own chunk and source.
C16_PositionalCorrespondence ==
    \A i \in 1..Len(doc_chunks) :
        i <= ntotal(index) => index.vecs[i] = Embedding(doc_chunks[i].text, index.d)

\* the return statements of retrieve_relevant_chunks: lines 206, 215, 219,
\* 237 and 240
RetrieveReturns ==
    {"empty_query", "embedding_failed", "empty_store", "retrieved", "search_failed"}

\* C17: a retrieve_relevant_chunks call whose query is empty, whose store
\* holds no vectors, whose embedding call fails or whose search fails leaves
\* by one of its return statements with an empty sequence.
C17_DegradesToEmpty ==
    (/\ last.op = "retrieve_relevant_chunks"
     /\ \/ last.path = <<>>
        \/ ntotal(index) = 0
        \/ last.branch \in {"embedding_failed", "search_failed"})
        => (relevant_chunks = <<>> /\ last.branch \in RetrieveReturns)

\* a search that failed on a store that holds chunks
C17_Witness ==
    /\ last.op = "retrieve_relevant_chunks"
    /\ last.branch = "search_failed"
    /\ last.path # <<>>
    /\ doc_chunks # <<>> /\ ntotal(index) = Len(doc_chunks)
    /\ relevant_chunks = <<>>

\* where the text of chunk j begins in a context that joins the texts of
\* chunks by a blank line (0-based)
RECURSIVE OffsetIn(_, _)
OffsetIn(chunks, j) ==
    IF j = 1 THEN 0 ELSE OffsetIn(chunks, j - 1) + Len(chunks[j - 1].text) + 2

\* ctx is the texts of chunks, each once and in their order, with a blank line
\* ("\n\n") between one and the next and nothing else
JoinsInOrder(ctx, chunks) ==
    LET n == Len(chunks)
        at(j) == OffsetIn(chunks, j)
    IN  /\ Len(ctx) = at(n) + Len(chunks[n].text)
        /\ \A j \in 1..n :
              SubSeq(ctx, at(j) + 1, at(j) + Len(chunks[j].text)) = chunks[j].text
        /\ \A j \in 1..(n - 1) :
              SubSeq(ctx, at(j + 1) - 1, at(j + 1)) = <<"\n", "\n">>

Answered == last.op = "answer_query"

\* C18 as stated: the context of answer_query is the "no relevant
\* information" sentence if and only if retrieval returned no chunks, and
\* otherwise the texts of the retrieved chunks joined by a blank line in the
\* order retrieval returned them.
C18_SentinelIffNoChunks ==
    Answered
        => /\ (context = NO_CONTEXT) <=> (relevant_chunks = <<>>)
           /\ relevant_chunks # <<>> => JoinsInOrder(context, relevant_chunks)

\* C18 amended: the context is the "no relevant information" sentence if
\* retrieval returned no chunks; otherwise it is exactly the texts of the
\* retrieved chunks joined by a blank line, in the order retrieval returned
\* them (nearest first), none dropped, duplicated or reordered.  That text is
\* the sentence itself when the retrieved chunks spell it.
C18_ContextComposition ==
    Answered
        => /\ relevant_chunks = <<>> => context = NO_CONTEXT
           /\ relevant_chunks # <<>> => JoinsInOrder(context, relevant_chunks)
           /\ last.branch = "retrieved" =>
                 \E positions \in [1..Len(relevant_chunks) -> 1..ntotal(index)] :
                     /\ NearestInOrder(positions)
                     /\ \A j \in 1..Len(relevant_chunks) :
                           relevant_chunks[j] = doc_chunks[positions[j]]

\* an answer whose context joins three chunks of two files
C18_Witness ==
    /\ Answered
    /\ Len(relevant_chunks) = 3
    /\ relevant_chunks[1].source # relevant_chunks[3].source
    /\ relevant_chunks[1].text # relevant_chunks[2].text
    /\ context # NO_CONTEXT
    /\ JoinsInOrder(context, relevant_chunks)

\* C19: answer_query returns a string for every query, store, embedding
\* outcome and completion outcome: the stripped reply when the completion call
\* succeeds, and the fixed apology, with nothing of the exception in it, when
\* the completion call fails.
C19_AnswerTotal ==
    Answered
        => IF last.completed
           THEN \E reply \in Replies : answer = strip(reply)
           ELSE answer = APOLOGY

\* a failed completion after a retrieval that found chunks
C19_Witness ==
    /\ Answered
    /\ ~last.completed
    /\ relevant_chunks # <<>>
    /\ answer = APOLOGY

\* the ways an add_document call leaves by an exception instead of a return:
\* index.add on line 189 stands outside every try block
RaisingBranches == {"index_add_raised"}

\* C20: whatever extraction, embedding, index insertion and persistence do,
\* add_document returns to its caller without raising.
C20_IngestTotal ==
    last.op = "add_document" => last.branch \notin RaisingBranches

\* both request threads have returned from an add_document that reached
\* index.add
BothAdded ==
    \A t \in Threads :
        /\ At(t, "return")
        /\ threads[t].op = "add_document"
        /\ threads[t].chunks # <<>>

\* the chunks thread t appended
ChunksOf(t) ==
    { [text |-> threads[t].chunks[j], source |-> threads[t].filename] :
        j \in 1..Len(threads[t].chunks) }

\* C22: once two concurrent add_document calls on the shared store have both
\* completed, there are as many vectors as chunks and the vector at each
\* position is the embedding of the chunk there, in memory and in the
\* persisted pair.
C22_ConcurrentCorrespondence ==
    BothAdded
        => /\ ntotal(index) = Len(doc_chunks)
           /\ \A i \in 1..Len(doc_chunks) :
                 index.vecs[i] = Embedding(doc_chunks[i].text, index.d)
           /\ BothLoadable
           /\ Len(index_file.vecs) = Len(doc_chunks_file.chunks)
           /\ \A i \in 1..Len(doc_chunks_file.chunks) :
                 index_file.vecs[i] =
                     Embedding(doc_chunks_file.chunks[i].text, index_file.d)

PersistedChunks == {doc_chunks_file.chunks[j] : j \in 1..Len(doc_chunks_file.chunks)}

\* C21: each of two concurrent add_document calls persists a full overwrite:
\* once both have completed the persisted chunk list is the list one of them
\* dumped, holding that call's own chunks and a prefix of the list in memory,
\* with nothing merged in from the other call (the witness is the interleaving
\* after which the chunks of the other call are missing from it).
C21_FullOverwrite ==
    BothAdded
        => /\ doc_chunks_file.readable
           /\ IsPrefix(doc_chunks_file.chunks, doc_chunks)
           /\ \E t \in Threads :
                 /\ doc_chunks_file = threads[t].chunks_buffer
                 /\ ChunksOf(t) \subseteq PersistedChunks

\* both calls have completed, the chunks of both are in memory, and the
\* persisted chunk list holds none of the chunks one of them added
C21_Witness ==
    /\ BothAdded
    /\ threads[1].filename # threads[2].filename
    /\ doc_chunks_file.readable
    /\ \A t \in Threads :
          ChunksOf(t) \subseteq {doc_chunks[j] : j \in 1..Len(doc_chunks)}
    /\ \E t \in Threads : ChunksOf(t) \cap PersistedChunks = {}

\* what retrieve_relevant_chunks(query, k) may return when it runs alone on
\* the store, encode ending as enc
RetrievedAlone(query, k, enc) ==
    { retrieve_relevant_chunks(Self, query, k, enc, found).chunks :
        found \in SearchOutcomes(Self, query, k, enc) }

\* C23: no step of a retrieve_relevant_chunks or answer_query call changes the
\* vectors, the chunks or the persisted artifacts, and whatever the
\* interleaving of two such calls on a store that does not change, each
\* returns chunks, in an order, that the same call returns when run alone.
C23_ConcurrentReads ==
    [][/\ UNCHANGED <<index, doc_chunks, index_file, doc_chunks_file>>
       /\ \A t \in Threads :
             (threads[t].pc # "return" /\ threads'[t].pc = "return")
                 => threads'[t].relevant_chunks
                        \in RetrievedAlone(threads'[t].query, threads'[t].k,
                                           threads'[t].enc)]_vars

\* the two threads, called with different queries, have both returned chunks,
\* and not the same ones
C23_Witness ==
    /\ \A t \in Threads : At(t, "return") /\ threads[t].branch = "retrieved"
    /\ threads[1].query # threads[2].query
    /\ threads[1].relevant_chunks # <<>>
    /\ threads[1].relevant_chunks[1] # threads[2].relevant_chunks[1]

Loadable(file) == file.exists /\ file.readable

\* C24: after _load_vector_store has run on a disk where either artifact is
\* absent or cannot be loaded, the store is empty (no vector, no chunk) and
\* its index has the dimension of the embedding model; what one artifact held
\* is never kept without the other's.
C24_RestoreWithoutArtifact ==
    (last.op = "restore" /\ ~(Loadable(index_file) /\ Loadable(doc_chunks_file)))
        => /\ index = IndexFlatL2(embedding_dim)
           /\ doc_chunks = <<>>

\* read_index has loaded vectors of the right dimension, pickle.load has
\* raised on the chunk file, and the store came out empty
C24_Witness ==
    /\ last.op = "restore"
    /\ last.branch = "load_error"
    /\ Loadable(index_file)
    /\ index_file.d = embedding_dim
    /\ index_file.vecs # <<>>
    /\ ~Loadable(doc_chunks_file)
    /\ ntotal(index) = 0

InFlight == { a \in Attempts : gui.attempts[a].pc = "posting" }

\* C26: at most one backend request started from the GUI is in flight.
C26_SingleInFlight == Cardinality(InFlight) <= 1

Attempt(a) == gui.attempts[a]

Done(a) == a \in Attempts /\ Attempt(a).pc = "done"

Quiescent == gui.after = <<>> /\ \A a \in Attempts : Done(a)

Uploads == { a \in Attempts : Attempt(a).kind = "upload" }

LastUploadSucceeded ==
    \E a \in Uploads : Attempt(a).success /\ \A b \in Uploads : b <= a

\* C28: when no request is in flight, the send button is enabled exactly when
\* current_file is set, and current_file is set only if the most recent upload
\* succeeded.
C28_SendGatedOnUpload ==
    Quiescent
        => /\ gui.send_button = NORMAL <=> truthy(gui.current_file)
           /\ truthy(gui.current_file) => LastUploadSucceeded

====
